---------------------------- MODULE Spec2Model ----------------------------
(***************************************************************************)
(* Model of frontend/src/App.jsx: the derived report fields that the App   *)
(* component computes from data.flows and data.model_evaluations on every  *)
(* render.                                                                 *)
(*                                                                         *)
(* JavaScript values.  A value that the code treats as a number (or tests  *)
(* with typeof / || / ??) is a record [t, n]: t is the typeof tag and n    *)
(* the number (0 when t is not "number", 1/0 for true/false).  A value     *)
(* the code treats as a string is a TLA+ string, UndefStr standing for     *)
(* undefined.  Fractional numbers are fixed-point integers; the scale is   *)
(* stated where they are produced.                                         *)
(***************************************************************************)
EXTENDS Integers, Sequences, FiniteSets, TLC

VARIABLES flows, modelEvals, report, rendered, counts, entropy,
          file, data, loading, activeTab, upload, alerted, memo

vars ==
    << flows, modelEvals, report, rendered, counts, entropy,
       file, data, loading, activeTab, upload, alerted, memo >>

-----------------------------------------------------------------------------
(* JavaScript value helpers                                                *)

Undef == [t |-> "undefined", n |-> 0]

Num(x) == [t |-> "number", n |-> x]

\* a non-empty, non-numeric string found where a number is expected
NaS == [t |-> "string", n |-> 0]

Bool(b) == [t |-> "boolean", n |-> IF b THEN 1 ELSE 0]

UndefStr == "<undefined>"

\* ToBoolean of a tagged value: undefined, 0 and false are falsy
Truthy(v) ==
    CASE v.t = "undefined" -> FALSE
      [] v.t = "number"    -> v.n # 0
      [] v.t = "boolean"   -> v.n = 1
      [] OTHER             -> TRUE

\* ToBoolean of a string value: undefined and "" are falsy
TruthyStr(s) == s # UndefStr /\ s # ""

\* (v || 0) for a field holding undefined or a number
OrZero(v) == IF Truthy(v) THEN v.n ELSE 0

\* (s || d) for a string field
OrStr(s, d) == IF TruthyStr(s) THEN s ELSE d

\* the outcome of an expression that throws a TypeError
TypeError == "<TypeError>"

\* String.prototype.toUpperCase on the strings the model draws; calling it
\* on undefined throws
ToUpperCase(s) ==
    CASE s = UndefStr  -> TypeError
      [] s = "low"     -> "LOW"
      [] s = "high"    -> "HIGH"
      [] s = "tcp"     -> "TCP"
      [] s = "udp"     -> "UDP"
      [] s = "unknown" -> "UNKNOWN"
      [] OTHER         -> s

\* Array.prototype.reduce(Op, init) over a sequence
Reduce(Op(_, _), s, init) ==
    LET F[i \in 0..Len(s)] == IF i = 0 THEN init ELSE Op(F[i - 1], s[i])
    IN  F[Len(s)]

\* Number.prototype.toFixed on the exact quotient a / b (b > 0), as an integer
\* count of the last kept decimal: nearest, halves away from zero
RoundDiv(a, b) ==
    IF a >= 0 THEN (2 * a + b) \div (2 * b)
              ELSE -((2 * (-a) + b) \div (2 * b))

-----------------------------------------------------------------------------
(* A plain object used as a map: the sequence of its own string-keyed      *)
(* properties <<key, value>> in insertion order, which is the order of     *)
(* Object.entries for keys that are not array indices (addresses, labels). *)

MapHas(m, k) == \E i \in 1..Len(m) : m[i][1] = k

\* (map[k] || 0)
MapGetOrZero(m, k) ==
    IF MapHas(m, k)
    THEN LET i == CHOOSE j \in 1..Len(m) : m[j][1] = k IN m[i][2]
    ELSE 0

\* map[k] = v
MapSet(m, k, v) ==
    IF MapHas(m, k)
    THEN [i \in 1..Len(m) |-> IF m[i][1] = k THEN <<k, v>> ELSE m[i]]
    ELSE Append(m, <<k, v>>)


\* Math.min(a, b) on integers
Min2(a, b) == IF a <= b THEN a ELSE b

\* Array.prototype.slice(0, n)
SliceFirst(s, n) == SubSeq(s, 1, Min2(n, Len(s)))

-----------------------------------------------------------------------------
(* Severity and protocol histograms (lines 90-106)                         *)

\* SevKey with the fallback bucket of protocolData
SevKey_UnknownDefault(f) == ToUpperCase(OrStr(f.severity, "UNKNOWN"))

\* (f.severity || "LOW").toUpperCase()
SevKey(f) == ToUpperCase(OrStr(f.severity, "LOW"))

\* ProtoKey without the default: f.proto.toUpperCase()
ProtoKey_NoDefault(f) == ToUpperCase(f.proto)

\* (f.proto || "UNKNOWN").toUpperCase()
ProtoKey(f) == ToUpperCase(OrStr(f.proto, "UNKNOWN"))

\* CountInc that stores 1 instead of adding 1
CountInc_Reset(acc, k) == MapSet(acc, k, 1)

\* acc[k] = (acc[k] || 0) + 1
CountInc(acc, k) == MapSet(acc, k, MapGetOrZero(acc, k) + 1)

\* Object.entries(map).map(([name, value]) => ({ name, value }))
EntriesNameValue(m) == [i \in 1..Len(m) |-> [name |-> m[i][1], value |-> m[i][2]]]

severityData(fl) ==
    LET Step(acc, f) == CountInc(acc, SevKey(f))
    IN  EntriesNameValue(Reduce(Step, fl, <<>>))

protocolData(fl) ==
    LET Step(acc, f) == CountInc(acc, ProtoKey(f))
    IN  EntriesNameValue(Reduce(Step, fl, <<>>))

-----------------------------------------------------------------------------
(* Top talkers (lines 108-124)                                             *)

TopN == 5

\* (map[k] || 0) + (f.pkt_count || 0) || 1 : + binds tighter than ||, so the
\* fallback 1 applies to the whole sum
TalkerWeight(prev, f) ==
    LET sum == prev + OrZero(f.pkt_count)
    IN  IF sum # 0 THEN sum ELSE 1

\* InsertDesc that puts e before the elements of equal value (an unstable sort)
InsertDesc_BeforeEqual(sorted, e) ==
    LET before == {i \in 1..Len(sorted) : sorted[i][2] > e[2]}
        k      == Cardinality(before)
    IN  SubSeq(sorted, 1, k) \o <<e>> \o SubSeq(sorted, k + 1, Len(sorted))

\* Array.prototype.sort((a, b) => b[1] - a[1]): stable, descending by value.
\* Insertion after every element that does not sort behind e.
InsertDesc(sorted, e) ==
    LET before == {i \in 1..Len(sorted) : sorted[i][2] >= e[2]}
        k      == Cardinality(before)
    IN  SubSeq(sorted, 1, k) \o <<e>> \o SubSeq(sorted, k + 1, Len(sorted))

SortDesc(entries) == Reduce(InsertDesc, entries, <<>>)

\* .map(([ip, packets]) => ({ ip, packets }))
EntriesIpPackets(m) == [i \in 1..Len(m) |-> [ip |-> m[i][1], packets |-> m[i][2]]]

\* the map built by the forEach of topSources
SourceWeights(fl) ==
    LET Step(map, f) ==
            LET s == OrStr(f.src, "unknown")
            IN  MapSet(map, s, TalkerWeight(MapGetOrZero(map, s), f))
    IN  Reduce(Step, fl, <<>>)

\* the map built by the forEach of topDestinations
DestinationWeights(fl) ==
    LET Step(map, f) ==
            LET d == OrStr(f.dst, "unknown")
            IN  MapSet(map, d, TalkerWeight(MapGetOrZero(map, d), f))
    IN  Reduce(Step, fl, <<>>)

topSources(fl) == EntriesIpPackets(SliceFirst(SortDesc(SourceWeights(fl)), TopN))

topDestinations(fl) == EntriesIpPackets(SliceFirst(SortDesc(DestinationWeights(fl)), TopN))

-----------------------------------------------------------------------------
(* Counts, ratio and means (lines 126-153)                                 *)

totalFlows(fl) == Len(fl)

\* totalAnomalies that counts every flow whose flag is not false
totalAnomalies_NotFalse(fl) == Cardinality({i \in 1..Len(fl) : fl[i].is_anomaly # Bool(FALSE)})

\* isolationFlows.filter(f => f.is_anomaly).length
totalAnomalies(fl) == Cardinality({i \in 1..Len(fl) : Truthy(fl[i].is_anomaly)})

\* toFixed(2) of the ratio, in hundredths of a percent point ("0.00" is 0)
anomalyRatio(fl) ==
    IF totalFlows(fl) > 0
    THEN RoundDiv(totalAnomalies(fl) * 100 * 100, totalFlows(fl))
    ELSE 0

\* NumbersOf that keeps the truthy values: .filter(Boolean)
NumbersOf_Truthy(vs) == SelectSeq(vs, Truthy)

\* .filter(v => typeof v === "number")
NumbersOf(vs) == SelectSeq(vs, LAMBDA v : v.t = "number")

\* arr.reduce((a, b) => a + b, 0)
SumNumbers(arr) ==
    LET Add(a, b) == a + b.n
    IN  Reduce(Add, arr, 0)

\* parseFloat((sum / arr.length).toFixed(digits)) as an integer count of
\* 10^-digits (scale = 10^digits); 0 when no value is a number
MeanOf(vs, scale) ==
    LET arr == NumbersOf(vs)
    IN  IF Len(arr) = 0 THEN 0 ELSE RoundDiv(SumNumbers(arr) * scale, Len(arr))

\* toFixed(3): thousandths
Scale3 == 1000

\* toFixed(2): hundredths
Scale2 == 100

avg_pkt_rate(fl) == MeanOf([i \in 1..Len(fl) |-> fl[i].pkt_rate], Scale3)

avg_byte_rate(fl) == MeanOf([i \in 1..Len(fl) |-> fl[i].byte_rate], Scale3)

avg_payload(fl) == MeanOf([i \in 1..Len(fl) |-> fl[i].avg_payload_size], Scale2)

avg_duration(fl) == MeanOf([i \in 1..Len(fl) |-> fl[i].duration], Scale3)

-----------------------------------------------------------------------------
(* Extremal flows (lines 183-201).  The result is the index in flows of    *)
(* the flow object returned, 0 for null.                                   *)

\* (v || Infinity)
OrInfinity(v) == IF Truthy(v) THEN [inf |-> FALSE, n |-> v.n] ELSE [inf |-> TRUE, n |-> 0]

\* a < b on numbers that may be Infinity
LessInf(a, b) == ~a.inf /\ (b.inf \/ a.n < b.n)

Indices(fl) == [i \in 1..Len(fl) |-> i]

\* !best || (f.x || 0) > (best.x || 0) ? f : best
MaxStep(best, cand, vf, vbest) ==
    IF best = 0 \/ OrZero(vf) > OrZero(vbest) THEN cand ELSE best

\* MinStep without the !best test
MinStep_NoNullTest(best, cand, vf, vbest) ==
    IF LessInf(OrInfinity(vf), OrInfinity(vbest)) THEN cand ELSE best

\* !best || (f.x || Infinity) < (best.x || Infinity) ? f : best
MinStep(best, cand, vf, vbest) ==
    IF best = 0 \/ LessInf(OrInfinity(vf), OrInfinity(vbest)) THEN cand ELSE best

max_pkt_flow(fl) ==
    LET Step(best, i) ==
            MaxStep(best, i, fl[i].pkt_count, IF best = 0 THEN Undef ELSE fl[best].pkt_count)
    IN  IF Len(fl) = 0 THEN 0 ELSE Reduce(Step, Indices(fl), 0)

min_pkt_flow(fl) ==
    LET Step(best, i) ==
            MinStep(best, i, fl[i].pkt_count, IF best = 0 THEN Undef ELSE fl[best].pkt_count)
    IN  IF Len(fl) = 0 THEN 0 ELSE Reduce(Step, Indices(fl), 0)

max_byte_flow(fl) ==
    LET Step(best, i) ==
            MaxStep(best, i, fl[i].byte_count, IF best = 0 THEN Undef ELSE fl[best].byte_count)
    IN  IF Len(fl) = 0 THEN 0 ELSE Reduce(Step, Indices(fl), 0)

min_byte_flow(fl) ==
    LET Step(best, i) ==
            MinStep(best, i, fl[i].byte_count, IF best = 0 THEN Undef ELSE fl[best].byte_count)
    IN  IF Len(fl) = 0 THEN 0 ELSE Reduce(Step, Indices(fl), 0)

-----------------------------------------------------------------------------
(* Entropy (lines 30-40) and the totals, unique counts and entropies of    *)
(* the addresses (lines 155-180).  Logarithms are in units of 10^-7 and    *)
(* the entropy, kept to 4 decimals by toFixed(4), in units of 10^-4.       *)

\* Math.log2(n) for n = 1 .. 24, in units of 10^-7
Log2Table ==
    << 0, 10000000, 15849625, 20000000, 23219281, 25849625, 28073549, 30000000,
       31699250, 33219281, 34594316, 35849625, 37004397, 38073549, 39068906,
       40000000, 40874628, 41699250, 42479275, 43219281, 43923174, 44594316,
       45235620, 45849625 >>

Log2(n) == Log2Table[n]

\* counts.reduce((a, b) => a + b, 0)
SumCounts(cs) ==
    LET Add(a, b) == a + b
    IN  Reduce(Add, cs, 0)

\* EntropyStep with ent += p * Math.log2(p)
EntropyStep_Adds(ent, c, total) ==
    IF c <= 0 THEN ent ELSE ent + c * (Log2(c) - Log2(total))

\* one pass of the loop: c <= 0 is skipped, otherwise ent -= p * Math.log2(p)
\* with p = c / total; ent is kept as ent * total, log2(p) as
\* log2(c) - log2(total)
EntropyStep(ent, c, total) ==
    IF c <= 0 THEN ent ELSE ent - c * (Log2(c) - Log2(total))

\* entropyFromCounts whose loop ends (break) at the first c <= 0
entropyFromCounts_BreakOnZero(cs) ==
    LET total == SumCounts(cs)
        stop  == {i \in 1..Len(cs) : cs[i] <= 0}
        last  == IF stop = {} THEN Len(cs)
                 ELSE (CHOOSE i \in stop : \A j \in stop : i <= j) - 1
        Step(ent, c) == EntropyStep(ent, c, total)
    IN  IF total = 0 THEN 0
        ELSE RoundDiv(Reduce(Step, SubSeq(cs, 1, last), 0), total * 1000)

entropyFromCounts(cs) ==
    LET total == SumCounts(cs)
        Step(ent, c) == EntropyStep(ent, c, total)
    IN  IF total = 0 THEN 0 ELSE RoundDiv(Reduce(Step, cs, 0), total * 1000)

\* isolationFlows.reduce((s, f) => s + (f.byte_count || 0), 0)
total_bytes(fl) ==
    LET Add(acc, f) == acc + OrZero(f.byte_count)
    IN  Reduce(Add, fl, 0)

\* new Set(isolationFlows.map(f => f.src).filter(Boolean)).size
unique_src_ips(fl) == Cardinality({fl[i].src : i \in {j \in 1..Len(fl) : TruthyStr(fl[j].src)}})

unique_dst_ips(fl) == Cardinality({fl[i].dst : i \in {j \in 1..Len(fl) : TruthyStr(fl[j].dst)}})

\* FreqStep that files an absent or empty address under "unknown", as the
\* rankings do
FreqStep_UnknownDefault(freq, a) ==
    MapSet(freq, OrStr(a, "unknown"), MapGetOrZero(freq, OrStr(a, "unknown")) + 1)

\* if (a) freq[a] = (freq[a] || 0) + 1
FreqStep(freq, a) == IF TruthyStr(a) THEN MapSet(freq, a, MapGetOrZero(freq, a) + 1) ELSE freq

\* Object.values(freq)
ObjectValues(m) == [i \in 1..Len(m) |-> m[i][2]]

\* the freq object built by srcEntropy
SrcFrequencies(fl) ==
    LET Step(freq, f) == FreqStep(freq, f.src)
    IN  Reduce(Step, fl, <<>>)

\* the freq object built by dstEntropy
DstFrequencies(fl) ==
    LET Step(freq, f) == FreqStep(freq, f.dst)
    IN  Reduce(Step, fl, <<>>)

srcEntropy(fl) == entropyFromCounts(ObjectValues(SrcFrequencies(fl)))

dstEntropy(fl) == entropyFromCounts(ObjectValues(DstFrequencies(fl)))

-----------------------------------------------------------------------------
(* Model strength (lines 204-213).  Percentages are whole percent points,  *)
(* inference times are whole multiples of half a microsecond, and the      *)
(* strength is in hundredths.                                              *)

\* (v ?? 0)
NullishZero(v) == IF v.t = "undefined" THEN 0 ELSE v.n

\* the floor 0.000001 of Math.max, in half microseconds
Epsilon == 2

\* the weights 0.30, 0.25, 0.25, 0.20 in hundredths
WAccuracy == 30

WPrecision == 25

WStability == 25

WTime == 20

SetMax(S) == CHOOSE x \in S : \A y \in S : y <= x

RECURSIVE GCD(_, _)
GCD(a, b) == IF b = 0 THEN a ELSE GCD(b, a % b)

\* MaxTime with a floor of 0 instead of 0.000001
MaxTime_ZeroFloor(evals) ==
    SetMax({OrZero(evals[m].inference_time_sec) : m \in DOMAIN evals} \cup {0})

\* Math.max(...Object.values(modelEvals).map(m => m.inference_time_sec || 0), 0.000001)
MaxTime(evals) ==
    SetMax({OrZero(evals[m].inference_time_sec) : m \in DOMAIN evals} \cup {Epsilon})

\* computeStrength with the time term added instead of subtracted
computeStrength_AddsTime(stats, evals) ==
    LET accuracy  == NullishZero(stats.pseudo_accuracy_pct)
        precision == NullishZero(stats.pseudo_precision_pct)
        stability == NullishZero(stats.stability_pct)
        time      == NullishZero(stats.inference_time_sec)
        maxTime   == MaxTime(evals)
        g         == GCD(time, maxTime)
        positive  == WAccuracy * accuracy + WPrecision * precision + WStability * stability
    IN  IF maxTime > 0
        THEN RoundDiv(positive * (maxTime \div g) + WTime * 100 * (time \div g), maxTime \div g)
        ELSE positive

\* strength * 100, from 0.30*accuracy + 0.25*precision + 0.25*stability
\* - 0.20*(time / maxTime * 100), rounded by toFixed(2).  The quotient
\* time / maxTime is taken in lowest terms, which leaves its value unchanged
\* and keeps the products small.
computeStrength(stats, evals) ==
    LET accuracy  == NullishZero(stats.pseudo_accuracy_pct)
        precision == NullishZero(stats.pseudo_precision_pct)
        stability == NullishZero(stats.stability_pct)
        time      == NullishZero(stats.inference_time_sec)
        maxTime   == MaxTime(evals)
        g         == GCD(time, maxTime)
        positive  == WAccuracy * accuracy + WPrecision * precision + WStability * stability
    IN  IF maxTime > 0
        THEN RoundDiv(positive * (maxTime \div g) - WTime * 100 * (time \div g), maxTime \div g)
        ELSE positive

-----------------------------------------------------------------------------
(* One render of App: every derived field recomputed from the current      *)
(* flows and model evaluations (lines 81-213, 562-563).                    *)

\* a callback of the render throws: the two toUpperCase calls are the only
\* method calls on a value read from a flow
RenderThrows(fl) ==
    \E i \in 1..Len(fl) : TypeError \in {SevKey(fl[i]), ProtoKey(fl[i])}

ComputeReport(fl, evals) ==
    [ threw           |-> RenderThrows(fl),
      severityData    |-> severityData(fl),
      protocolData    |-> protocolData(fl),
      topSources      |-> topSources(fl),
      topDestinations |-> topDestinations(fl),
      totalFlows      |-> totalFlows(fl),
      totalAnomalies  |-> totalAnomalies(fl),
      anomalyRatio    |-> anomalyRatio(fl),
      avg_pkt_rate    |-> avg_pkt_rate(fl),
      avg_byte_rate   |-> avg_byte_rate(fl),
      avg_payload     |-> avg_payload(fl),
      avg_duration    |-> avg_duration(fl),
      total_bytes     |-> total_bytes(fl),
      unique_src_ips  |-> unique_src_ips(fl),
      unique_dst_ips  |-> unique_dst_ips(fl),
      srcEntropy      |-> srcEntropy(fl),
      dstEntropy      |-> dstEntropy(fl),
      max_pkt_flow    |-> max_pkt_flow(fl),
      min_pkt_flow    |-> min_pkt_flow(fl),
      max_byte_flow   |-> max_byte_flow(fl),
      min_byte_flow   |-> min_byte_flow(fl),
      strength        |-> [m \in DOMAIN evals |-> computeStrength(evals[m], evals)] ]

\* the flow list and the evaluation map of data === null (lines 81, 85)
NoFlows == <<>>

NoEvals == <<>>

\* useState(null) of data, and a JSON null
Null == [null |-> TRUE, id |-> 0, flows |-> NoFlows, model_evaluations |-> NoEvals]

\* data?.flows || []
FlowsOf(d) == IF d.null THEN NoFlows ELSE d.flows

\* data?.model_evaluations || {}
EvalsOf(d) == IF d.null THEN NoEvals ELSE d.model_evaluations

\* MemoHit with an empty dependency list: the first value is kept for ever
MemoHit_Always(d, mm) == mm.deps >= 0

\* useMemo(..., [isolationFlows]): the cached value is reused when the flow
\* array is the one of the previous render.  The array of a response has
\* the identity d.id; with data === null a new [] is made by every render.
MemoHit(d, mm) == ~d.null /\ mm.deps = d.id

\* the derived values of one render: the useMemo values from the cache on a
\* hit, the plain constants (lines 126-128, 204-213) always recomputed
RenderReport(d, mm) ==
    LET fl == FlowsOf(d)
        evals == EvalsOf(d)
    IN  IF MemoHit(d, mm)
        THEN [mm.value EXCEPT
                 !.totalFlows = totalFlows(fl),
                 !.totalAnomalies = totalAnomalies(fl),
                 !.anomalyRatio = anomalyRatio(fl),
                 !.strength = [m \in DOMAIN evals |-> computeStrength(evals[m], evals)]]
        ELSE ComputeReport(fl, evals)

\* a render of App with data = d
Rerender(d) ==
    /\ flows' = FlowsOf(d)
    /\ modelEvals' = EvalsOf(d)
    /\ report' = RenderReport(d, memo)
    /\ memo' = [deps |-> IF d.null THEN 0 ELSE d.id, value |-> report']
    /\ rendered' = TRUE

Render ==
    /\ Rerender(data)
    /\ UNCHANGED <<counts, entropy, file, data, loading, activeTab, upload, alerted>>

Next == Render

\* a call entropyFromCounts(counts) outside a render, on any list of counts
NotCalled == [called |-> FALSE, value |-> 0]

EntropyCall ==
    /\ entropy' = [called |-> TRUE, value |-> entropyFromCounts(counts)]
    /\ UNCHANGED <<flows, modelEvals, report, rendered, counts>>
    /\ UNCHANGED <<file, data, loading, activeTab, upload, alerted, memo>>

NextEntropy == EntropyCall

-----------------------------------------------------------------------------
(* The upload (lines 43-78, 258-283).  The response of the server is a    *)
(* status and a body; upload is the position of the call of handleUpload  *)
(* in flight and the number of calls so far.  Every handler that sets a   *)
(* state is followed by the render React runs for it.                     *)

Tabs == {"overview", "flows", "alerts", "patterns", "statistics", "model-scores"}

NoAlert == ""

NoBody == [kind |-> "none", flows |-> NoFlows, model_evaluations |-> NoEvals]

\* between two calls of handleUpload, n calls made
Idle(n) == [pc |-> "idle", calls |-> n, status |-> 0, body |-> NoBody]

\* the value res.json() resolves to: a new object for every response
Json(body, id) ==
    IF body.kind = "null"
    THEN Null
    ELSE [null |-> FALSE, id |-> id, flows |-> body.flows,
          model_evaluations |-> body.model_evaluations]

\* onChange of the file input: files[0] is a File, or undefined
SelectFile ==
    /\ \E f \in BOOLEAN : file' = f
    /\ Rerender(data)
    /\ UNCHANGED <<counts, entropy, data, loading, activeTab, upload, alerted>>

\* onClick of a tab; the tabs are rendered when data is truthy
ClickTab ==
    /\ ~data.null
    /\ \E tab \in Tabs : activeTab' = tab
    /\ Rerender(data)
    /\ UNCHANGED <<counts, entropy, file, data, loading, upload, alerted>>

\* the number of calls of handleUpload the model follows
MaxUploads == 3

\* the button is disabled while loading
CanClickUpload == ~loading /\ upload.pc = "idle" /\ upload.calls < MaxUploads

\* lines 50-53
UploadNoFile ==
    /\ CanClickUpload
    /\ ~file
    /\ alerted' = "Select a PCAP file first."
    /\ upload' = Idle(upload.calls + 1)
    /\ UNCHANGED <<flows, modelEvals, report, rendered, memo>>
    /\ UNCHANGED <<counts, entropy, file, data, loading, activeTab>>

\* lines 54-62, up to the await of fetch
UploadStart ==
    /\ CanClickUpload
    /\ file
    /\ loading' = TRUE
    /\ upload' = [pc |-> "fetch", calls |-> upload.calls + 1, status |-> 0, body |-> NoBody]
    /\ Rerender(data)
    /\ UNCHANGED <<counts, entropy, file, data, activeTab, alerted>>

\* the finally block
Finally ==
    /\ loading' = FALSE
    /\ upload' = Idle(upload.calls)

\* the catch block, then the finally block
Caught ==
    /\ alerted' = "Upload failed"
    /\ data' = data
    /\ activeTab' = activeTab
    /\ Finally
    /\ Rerender(data)

\* fetch rejects: a network error
FetchRejects ==
    /\ upload.pc = "fetch"
    /\ Caught
    /\ UNCHANGED <<counts, entropy, file>>

\* the bodies a response carries: not JSON, the JSON null, or an object
\* with flows and model evaluations
Bodies(objects) ==
    { [kind |-> "text", flows |-> NoFlows, model_evaluations |-> NoEvals],
      [kind |-> "null", flows |-> NoFlows, model_evaluations |-> NoEvals] }
    \cup { [kind |-> "object", flows |-> o.flows, model_evaluations |-> o.model_evaluations] :
              o \in objects }

Statuses == {200, 500}

\* fetch resolves with a response, up to the await of res.json()
FetchResolvesWith(objects) ==
    /\ upload.pc = "fetch"
    /\ \E st \in Statuses, b \in Bodies(objects) :
          upload' = [upload EXCEPT !.pc = "json", !.status = st, !.body = b]
    /\ UNCHANGED <<flows, modelEvals, report, rendered, memo>>
    /\ UNCHANGED <<counts, entropy, file, data, loading, activeTab, alerted>>

\* res.json() rejects: the body is not JSON
JsonRejects ==
    /\ upload.pc = "json"
    /\ upload.body.kind = "text"
    /\ Caught
    /\ UNCHANGED <<counts, entropy, file>>

\* JsonResolves that leaves the try block at the return of line 68
\* without running the finally block
JsonResolves_ReturnSkipsFinally ==
    /\ upload.pc = "json"
    /\ upload.body.kind # "text"
    /\ LET json == Json(upload.body, upload.calls)
       IN  IF upload.status # 200
           THEN IF json.null
                THEN Caught
                ELSE /\ alerted' = "Server error"
                     /\ data' = Null
                     /\ upload' = Idle(upload.calls)
                     /\ Rerender(Null)
                     /\ UNCHANGED <<activeTab, loading>>
           ELSE /\ data' = json
                /\ activeTab' = "overview"
                /\ Finally
                /\ Rerender(json)
                /\ UNCHANGED alerted
    /\ UNCHANGED <<counts, entropy, file>>

\* res.json() resolves: lines 64-71, then the finally block.  Reading
\* json.error of a JSON null throws into the catch block.
JsonResolves ==
    /\ upload.pc = "json"
    /\ upload.body.kind # "text"
    /\ LET json == Json(upload.body, upload.calls)
       IN  IF upload.status # 200
           THEN IF json.null
                THEN Caught
                ELSE /\ alerted' = "Server error"
                     /\ data' = Null
                     /\ activeTab' = activeTab
                     /\ Finally
                     /\ Rerender(Null)
           ELSE /\ data' = json
                /\ activeTab' = "overview"
                /\ Finally
                /\ Rerender(json)
                /\ UNCHANGED alerted
    /\ UNCHANGED <<counts, entropy, file>>

-----------------------------------------------------------------------------
(* Inputs.  data is null after construction (line 44), so the first render *)
(* sees no flows and no evaluations; a response then sets data.flows and   *)
(* data.model_evaluations (lines 70, 81, 85).  Each specification below    *)
(* starts where a response has just been stored and the render that        *)
(* follows is pending; it draws the response from a bounded set that       *)
(* varies the fields one group of derived values reads.                    *)

BlankFlow ==
    [ src |-> UndefStr, dst |-> UndefStr, proto |-> UndefStr, severity |-> UndefStr,
      pkt_count |-> Undef, byte_count |-> Undef,
      pkt_rate |-> Undef, byte_rate |-> Undef, avg_payload_size |-> Undef,
      duration |-> Undef, is_anomaly |-> Undef ]

\* the report of the render with data === null
InitialReport == ComputeReport(NoFlows, NoEvals)

Pending ==
    /\ report = InitialReport
    /\ rendered = FALSE

\* no memoised value yet
NoMemo == [deps |-> 0, value |-> InitialReport]

\* the state of App at construction (lines 43-46)
Constructed ==
    /\ file = FALSE
    /\ data = Null
    /\ loading = FALSE
    /\ activeTab = "overview"
    /\ upload = Idle(0)
    /\ alerted = NoAlert
    /\ memo = NoMemo

\* one upload has stored a response with the flows and the evaluations
Loaded ==
    /\ file = TRUE
    /\ data = [null |-> FALSE, id |-> 1, flows |-> flows, model_evaluations |-> modelEvals]
    /\ loading = FALSE
    /\ activeTab = "overview"
    /\ upload = Idle(1)
    /\ alerted = NoAlert
    /\ memo = NoMemo

\* no call of entropyFromCounts outside the renders
NoEntropyCall ==
    /\ counts = <<>>
    /\ entropy = NotCalled

Init ==
    /\ flows = NoFlows
    /\ modelEvals = NoEvals
    /\ Pending
    /\ Constructed
    /\ NoEntropyCall

Spec == Init /\ [][Next]_vars

\* --- histograms: severity and proto vary
MaxHistFlows == 3

SeverityValues == {UndefStr, "LOW", "low", "UNKNOWN"}

ProtoValues == {UndefStr, "", "tcp", "TCP", "udp"}

InitHist ==
    /\ \E n \in 0..MaxHistFlows :
         \E sv \in [1..n -> SeverityValues], pr \in [1..n -> ProtoValues] :
            flows = [i \in 1..n |-> [BlankFlow EXCEPT !.severity = sv[i], !.proto = pr[i]]]
    /\ modelEvals = NoEvals
    /\ Pending
    /\ Loaded
    /\ NoEntropyCall

SpecHist == InitHist /\ [][Next]_vars

\* --- extremes: pkt_count and byte_count vary
MaxExtFlows == 3

CountValues == {Undef, Num(0), Num(1), Num(2)}

InitExt ==
    /\ \E n \in 0..MaxExtFlows :
         \E pc \in [1..n -> CountValues], bc \in [1..n -> CountValues] :
            flows = [i \in 1..n |-> [BlankFlow EXCEPT !.pkt_count = pc[i], !.byte_count = bc[i]]]
    /\ modelEvals = NoEvals
    /\ Pending
    /\ Loaded
    /\ NoEntropyCall

SpecExt == InitExt /\ [][Next]_vars

\* --- means: the four averaged fields vary (two by two)
MaxMeanFlows == 3

RateValues == {Undef, NaS, Num(0), Num(1)}

InitMean ==
    /\ \E n \in 0..MaxMeanFlows :
         \E a \in [1..n -> RateValues], b \in [1..n -> RateValues] :
            flows = [i \in 1..n |->
                        [BlankFlow EXCEPT !.pkt_rate = a[i], !.avg_payload_size = a[i],
                                          !.byte_rate = b[i], !.duration = b[i]]]
    /\ modelEvals = NoEvals
    /\ Pending
    /\ Loaded
    /\ NoEntropyCall

SpecMean == InitMean /\ [][Next]_vars

\* --- anomaly ratio: is_anomaly varies
MaxAnomFlows == 6

AnomalyValues == {Undef, Bool(TRUE), Bool(FALSE)}

InitAnom ==
    /\ \E n \in 0..MaxAnomFlows :
         \E an \in [1..n -> AnomalyValues] :
            flows = [i \in 1..n |-> [BlankFlow EXCEPT !.is_anomaly = an[i]]]
    /\ modelEvals = NoEvals
    /\ Pending
    /\ Loaded
    /\ NoEntropyCall

SpecAnom == InitAnom /\ [][Next]_vars

\* --- top talkers: src, dst and pkt_count vary.  Addresses are dotted
\* quads, never array-index keys.  The source addresses of a list are named
\* in order of first appearance (any list of addresses is such a list up to
\* the names), and the destinations are the sources in reverse order, so
\* that the two rankings meet their addresses in different orders.
MaxTopFlows == 6

AddressNames ==
    << "10.0.0.1", "10.0.0.2", "10.0.0.3", "10.0.0.4",
       "10.0.0.5", "10.0.0.6", "10.0.0.7", "10.0.0.8" >>

TopCountValues == {Num(0), Num(2)}

\* the sequences of n address numbers in order of first appearance
RECURSIVE AddressPatterns(_)
AddressPatterns(n) ==
    IF n = 0 THEN {<<>>}
    ELSE UNION { {Append(p, k) : k \in 1..(1 + SetMax({p[j] : j \in 1..Len(p)} \cup {0}))}
                 : p \in AddressPatterns(n - 1) }

InitTop ==
    /\ \E n \in 0..MaxTopFlows :
         \E a \in AddressPatterns(n), pc \in [1..n -> TopCountValues] :
            flows = [i \in 1..n |->
                        [BlankFlow EXCEPT !.src = AddressNames[a[i]],
                                          !.dst = AddressNames[a[n + 1 - i]],
                                          !.pkt_count = pc[i]]]
    /\ modelEvals = NoEvals
    /\ Pending
    /\ Loaded
    /\ NoEntropyCall

SpecTop == InitTop /\ [][Next]_vars

\* --- strength: the evaluation map varies.  Models are named 1, 2, ...;
\* the times of one map are 0, 0.5, 1 or 1.5 microseconds (below, at and
\* above the floor of maxTime), or 0, 1, 2 or 3 seconds.
MaxModels == 2

\* one second, in half microseconds
Second == Epsilon * 1000000

TimeValues(unit) == {Undef, Num(0), Num(unit), Num(2 * unit), Num(3 * unit)}

StatsValues(unit) ==
    [ pseudo_accuracy_pct  : {Undef, Num(90)},
      pseudo_precision_pct : {Undef, Num(80)},
      stability_pct        : {Undef, Num(70)},
      inference_time_sec   : TimeValues(unit) ]

InitStrength ==
    /\ flows = NoFlows
    /\ \E n \in 0..MaxModels, unit \in {1, Second} :
          modelEvals \in [1..n -> StatsValues(unit)]
    /\ Pending
    /\ Loaded
    /\ NoEntropyCall

SpecStrength == InitStrength /\ [][Next]_vars

\* --- entropy: the list of counts varies
MaxCategories == 8

CategoryCounts == {0, 1, 2}

InitEntropy ==
    /\ flows = NoFlows
    /\ modelEvals = NoEvals
    /\ Pending
    /\ Loaded
    /\ \E n \in 0..MaxCategories : counts \in [1..n -> CategoryCounts]
    /\ entropy = NotCalled

SpecEntropy == InitEntropy /\ [][NextEntropy]_vars

\* --- addresses: src and dst vary, absent, empty or present
MaxAddrFlows == 3

SrcValues == {UndefStr, "", "10.0.0.1", "10.0.0.2"}

DstValues == {UndefStr, "10.0.0.1", "unknown"}

InitAddr ==
    /\ \E n \in 0..MaxAddrFlows :
         \E sa \in [1..n -> SrcValues], da \in [1..n -> DstValues] :
            flows = [i \in 1..n |-> [BlankFlow EXCEPT !.src = sa[i], !.dst = da[i]]]
    /\ modelEvals = NoEvals
    /\ Pending
    /\ Loaded
    /\ NoEntropyCall

SpecAddr == InitAddr /\ [][Next]_vars

\* --- the whole report: every subset of the fields of a flow and of the
\* metrics of a model absent.  The flows at odd positions lack the fields
\* of one subset and the flows at even positions lack the other fields;
\* likewise the models.
MaxReportFlows == 2

MaxReportModels == 2

FlowFields ==
    { "src", "dst", "proto", "severity", "pkt_count", "byte_count", "pkt_rate",
      "byte_rate", "avg_payload_size", "duration", "is_anomaly" }

MetricFields ==
    { "pseudo_accuracy_pct", "pseudo_precision_pct", "stability_pct",
      "inference_time_sec" }

FullFlow ==
    [ src |-> "10.0.0.1", dst |-> "10.0.0.2", proto |-> "tcp", severity |-> "high",
      pkt_count |-> Num(3), byte_count |-> Num(200),
      pkt_rate |-> Num(2), byte_rate |-> Num(100), avg_payload_size |-> Num(60),
      duration |-> Num(1), is_anomaly |-> Bool(TRUE) ]

FullStats ==
    [ pseudo_accuracy_pct |-> Num(90), pseudo_precision_pct |-> Num(80),
      stability_pct |-> Num(70), inference_time_sec |-> Num(Second) ]

BlankStats ==
    [ pseudo_accuracy_pct |-> Undef, pseudo_precision_pct |-> Undef,
      stability_pct |-> Undef, inference_time_sec |-> Undef ]

\* the object full with the fields of absent taken from blank
Without(full, blank, absent) ==
    [k \in DOMAIN full |-> IF k \in absent THEN blank[k] ELSE full[k]]

\* the subset for the odd positions, its complement for the even ones
AbsentAt(i, absent, fields) == IF i % 2 = 1 THEN absent ELSE fields \ absent

InitReport ==
    /\ \E n \in 0..MaxReportFlows, absent \in SUBSET FlowFields :
          flows = [i \in 1..n |->
                      Without(FullFlow, BlankFlow, AbsentAt(i, absent, FlowFields))]
    /\ \E n \in 0..MaxReportModels, absent \in SUBSET MetricFields :
          modelEvals = [i \in 1..n |->
                           Without(FullStats, BlankStats, AbsentAt(i, absent, MetricFields))]
    /\ Pending
    /\ Loaded
    /\ NoEntropyCall

SpecReport == InitReport /\ [][Next]_vars

\* --- uploads: the responses carry one of two objects
ResponseObjects ==
    { [flows |-> <<FullFlow>>, model_evaluations |-> <<FullStats>>],
      [flows |-> <<BlankFlow, FullFlow>>, model_evaluations |-> NoEvals] }

FetchResolves == FetchResolvesWith(ResponseObjects)

NextUpload ==
    \/ Render
    \/ SelectFile
    \/ ClickTab
    \/ UploadNoFile
    \/ UploadStart
    \/ FetchRejects
    \/ FetchResolves
    \/ JsonRejects
    \/ JsonResolves

InitUpload ==
    /\ flows = NoFlows
    /\ modelEvals = NoEvals
    /\ Pending
    /\ Constructed
    /\ NoEntropyCall

SpecUpload == InitUpload /\ [][NextUpload]_vars

\* the promise of fetch settles: the call leaves the await of line 59, as
\* FetchRejects and FetchResolves make it do
FetchSettles ==
    /\ upload.pc = "fetch"
    /\ upload' \in {Idle(upload.calls)} \cup
                   { [upload EXCEPT !.pc = "json", !.status = st, !.body = b] :
                        st \in Statuses, b \in Bodies(ResponseObjects) }

\* the promise of res.json() settles: the call leaves the await of line 63,
\* as JsonRejects and JsonResolves make it do
JsonSettles ==
    /\ upload.pc = "json"
    /\ upload' = Idle(upload.calls)

\* every request ends: both promises settle
RequestsEnd == WF_upload(FetchSettles) /\ WF_upload(JsonSettles)

SpecUploadFair == SpecUpload /\ RequestsEnd

-----------------------------------------------------------------------------
(* Properties                                                              *)

\* the sum of the value fields of a histogram
SumOfValues(h) ==
    LET Add(a, e) == a + e.value
    IN  Reduce(Add, h, 0)

BucketNames(h) == {h[i].name : i \in 1..Len(h)}

\* a histogram h has one bucket per value of Key over the flows, each
\* counting the flows with that value
OneBucketPerValue(h, Key(_)) ==
    /\ BucketNames(h) = {Key(flows[i]) : i \in 1..Len(flows)}
    /\ Cardinality(BucketNames(h)) = Len(h)
    /\ \A b \in 1..Len(h) :
          h[b].value = Cardinality({i \in 1..Len(flows) : Key(flows[i]) = h[b].name})

\* C3: for every non-empty flow list the counts of the severity histogram
\* sum to total_flows, and so do the counts of the protocol histogram,
\* whatever fields the flows have or lack.
C3_HistogramSums ==
    (rendered /\ Len(flows) > 0) =>
        /\ report.totalFlows = Len(flows)
        /\ SumOfValues(report.severityData) = report.totalFlows
        /\ SumOfValues(report.protocolData) = report.totalFlows

\* three flows, one without severity and proto, counted in two and three buckets
C3_Witness ==
    /\ rendered
    /\ Len(flows) = 3
    /\ \E i \in 1..3 : flows[i].severity = UndefStr /\ flows[i].proto = UndefStr
    /\ Len(report.severityData) = 2
    /\ Len(report.protocolData) = 3
    /\ SumOfValues(report.severityData) = 3

\* the value of the field after defaulting only
C4_DefaultedSeverity(f) == OrStr(f.severity, "LOW")

C4_DefaultedProto(f) == OrStr(f.proto, "UNKNOWN")

\* the value of the field after defaulting and upper-casing
C4_UpperSeverity(f) == ToUpperCase(C4_DefaultedSeverity(f))

C4_UpperProto(f) == ToUpperCase(C4_DefaultedProto(f))

\* C4 as stated: the histograms have exactly one bucket per distinct observed
\* value of the field after defaulting (absent severity as LOW, absent proto
\* as UNKNOWN), each counting the flows with that value.
C4_Original ==
    rendered =>
        /\ OneBucketPerValue(report.severityData, C4_DefaultedSeverity)
        /\ OneBucketPerValue(report.protocolData, C4_DefaultedProto)

\* C4 (amended): the histograms have exactly one bucket per distinct value of
\* the field after defaulting (absent or empty severity as LOW, absent or
\* empty proto as UNKNOWN) and upper-casing, each counting the flows with
\* that upper-cased value; an observed severity UNKNOWN keeps its own bucket,
\* apart from LOW.
C4_BucketsPerUpperCasedValue ==
    rendered =>
        /\ OneBucketPerValue(report.severityData, C4_UpperSeverity)
        /\ OneBucketPerValue(report.protocolData, C4_UpperProto)
        /\ \A i \in 1..Len(flows) :
              flows[i].severity = "UNKNOWN" =>
                 \E b \in 1..Len(report.severityData) :
                    /\ report.severityData[b].name = "UNKNOWN"
                    /\ report.severityData[b].value =
                          Cardinality({j \in 1..Len(flows) : flows[j].severity \in {"UNKNOWN", "unknown"}})

\* an absent, a lower-case and an explicit UNKNOWN severity in one list
C4_Witness ==
    /\ rendered
    /\ Len(flows) = 3
    /\ {flows[i].severity : i \in 1..3} = {UndefStr, "low", "UNKNOWN"}
    /\ \E b \in 1..Len(report.severityData) :
          report.severityData[b] = [name |-> "LOW", value |-> 2]
    /\ \E b \in 1..Len(report.severityData) :
          report.severityData[b] = [name |-> "UNKNOWN", value |-> 1]

\* the pkt_count / byte_count values of the flows, in input order
PktCounts == [i \in 1..Len(flows) |-> flows[i].pkt_count]

ByteCounts == [i \in 1..Len(flows) |-> flows[i].byte_count]

HasField(v) == v.t = "number"

\* r is the minimal entry of vs when a missing value counts as +infinity and
\* a present 0 as 0: some value is present => r has one, no greater than any
MinimalWithMissingAsInfinity(vs, r) ==
    (\E i \in 1..Len(vs) : HasField(vs[i])) =>
        /\ r \in 1..Len(vs)
        /\ HasField(vs[r])
        /\ \A i \in 1..Len(vs) : HasField(vs[i]) => vs[r].n <= vs[i].n

\* C2 as stated: the min selection over pkt_count (and byte_count) treats a
\* missing field as +infinity, returns a flow carrying the smallest value of
\* the field among all flows (a present 0 counting as 0), and does not return
\* a flow lacking the field while another flow has it.
C2_MinMissingAsInfinity ==
    rendered =>
        /\ MinimalWithMissingAsInfinity(PktCounts, report.min_pkt_flow)
        /\ MinimalWithMissingAsInfinity(ByteCounts, report.min_byte_flow)

\* value of a field for the max selection: missing counts as 0
ValueOrZero(v) == IF HasField(v) THEN v.n ELSE 0

\* r is the first entry of vs whose value (missing as 0) is the greatest
FirstMaximal(vs, r) ==
    /\ r \in 1..Len(vs)
    /\ \A i \in 1..Len(vs) : ValueOrZero(vs[r]) >= ValueOrZero(vs[i])
    /\ \A i \in 1..(r - 1) : ValueOrZero(vs[i]) # ValueOrZero(vs[r])

\* a is no greater than b, a missing value counting as +infinity
LeqMissingAsInfinity(a, b) == ~HasField(b) \/ (HasField(a) /\ a.n <= b.n)

\* r is the first entry of vs whose value (missing as +infinity) is the smallest
FirstMinimal(vs, r) ==
    /\ r \in 1..Len(vs)
    /\ \A i \in 1..Len(vs) : LeqMissingAsInfinity(vs[r], vs[i])
    /\ \A i \in 1..(r - 1) : ~LeqMissingAsInfinity(vs[i], vs[r])

\* C5 as stated: on a non-empty list the max selection returns a flow whose
\* value (missing as 0) is at least that of every flow, the first in input
\* order among those sharing the extreme value, and the min selection breaks
\* ties the same way.
C5_ExtremesFirstInInputOrder ==
    (rendered /\ Len(flows) > 0) =>
        /\ FirstMaximal(PktCounts, report.max_pkt_flow)
        /\ FirstMaximal(ByteCounts, report.max_byte_flow)
        /\ FirstMinimal(PktCounts, report.min_pkt_flow)
        /\ FirstMinimal(ByteCounts, report.min_byte_flow)

\* C10: each of the four extremal selections returns none (0) on an empty
\* flow list, and on a list of exactly one flow returns that flow, whether
\* or not the flow has the field.
C10_EmptyAndSingleton ==
    rendered =>
        /\ Len(flows) = 0 =>
              /\ report.max_pkt_flow = 0 /\ report.min_pkt_flow = 0
              /\ report.max_byte_flow = 0 /\ report.min_byte_flow = 0
        /\ Len(flows) = 1 =>
              /\ report.max_pkt_flow = 1 /\ report.min_pkt_flow = 1
              /\ report.max_byte_flow = 1 /\ report.min_byte_flow = 1

\* a single flow without pkt_count and with byte_count 0, returned four times
C10_Witness ==
    /\ rendered
    /\ Len(flows) = 1
    /\ flows[1].pkt_count = Undef
    /\ flows[1].byte_count = Num(0)
    /\ report.min_pkt_flow = 1
    /\ report.max_byte_flow = 1

\* the address a ranking files a flow under
SrcOf(f) == IF f.src \in {UndefStr, ""} THEN "unknown" ELSE f.src

DstOf(f) == IF f.dst \in {UndefStr, ""} THEN "unknown" ELSE f.dst

\* what one flow contributes to its address: pkt_count when positive, else 1
Contribution(f) ==
    IF HasField(f.pkt_count) /\ f.pkt_count.n > 0 THEN f.pkt_count.n ELSE 1

\* the sum of the contributions of the flows of address a
SumOfContributions(AddrOf(_), a) ==
    LET Add(acc, f) == IF AddrOf(f) = a THEN acc + Contribution(f) ELSE acc
    IN  Reduce(Add, flows, 0)

\* C1 as stated: in both rankings the weight reported for an address is the
\* sum over that address's flows of the flow's contribution (pkt_count when
\* positive, 1 when 0 or absent), for every flow list in every order.
C1_WeightIsSumOfContributions ==
    rendered =>
        /\ \A i \in 1..Len(report.topSources) :
              report.topSources[i].packets =
                 SumOfContributions(SrcOf, report.topSources[i].ip)
        /\ \A i \in 1..Len(report.topDestinations) :
              report.topDestinations[i].packets =
                 SumOfContributions(DstOf, report.topDestinations[i].ip)

\* position in flows of the first flow of address a
FirstSeen(AddrOf(_), a) ==
    CHOOSE k \in 1..Len(flows) :
        /\ AddrOf(flows[k]) = a
        /\ \A j \in 1..(k - 1) : AddrOf(flows[j]) # a

\* ranking r lists at most 5 of the (address, weight) pairs of the weight map
\* w, heaviest first, equal weights in order of first appearance, and leaves
\* out only addresses that no listed address must yield to
RankedTopFive(r, w, AddrOf(_)) ==
    LET listed == {r[i].ip : i \in 1..Len(r)}
    IN  /\ Len(r) = Min2(5, Len(w))
        /\ Cardinality(listed) = Len(r)
        /\ {w[i][1] : i \in 1..Len(w)} = {AddrOf(flows[k]) : k \in 1..Len(flows)}
        /\ \A i \in 1..Len(r) : \E j \in 1..Len(w) : w[j] = <<r[i].ip, r[i].packets>>
        /\ \A i, j \in 1..Len(r) :
              i < j =>
                 /\ r[i].packets >= r[j].packets
                 /\ r[i].packets = r[j].packets =>
                       FirstSeen(AddrOf, r[i].ip) < FirstSeen(AddrOf, r[j].ip)
        /\ \A j \in 1..Len(w) :
              w[j][1] \notin listed =>
                 \A i \in 1..Len(r) :
                    /\ w[j][2] <= r[i].packets
                    /\ w[j][2] = r[i].packets =>
                          FirstSeen(AddrOf, r[i].ip) < FirstSeen(AddrOf, w[j][1])

\* C6: each top-talker result lists at most 5 (address, weight) pairs in
\* non-increasing order of weight, no omitted address has a weight greater
\* than a listed one, and addresses of equal weight appear in the order in
\* which they were first encountered in the flow list.  The weights are
\* those the ranking accumulated.
C6_TopFiveRanking ==
    rendered =>
        /\ RankedTopFive(report.topSources, SourceWeights(flows), SrcOf)
        /\ RankedTopFive(report.topDestinations, DestinationWeights(flows), DstOf)

\* six sources, five listed, with a tie and a strict descent among the listed
C6_Witness ==
    /\ rendered
    /\ Len(SourceWeights(flows)) = 6
    /\ Len(report.topSources) = 5
    /\ report.topSources[1].packets > report.topSources[5].packets
    /\ report.topSources[1].packets = report.topSources[2].packets
    /\ report.topSources[1].ip # AddressNames[1]

\* mean (an integer count of 1/scale) is the sum of the well-formed numbers
\* of vs divided by their number, to the nearest 1/scale, and 0 when vs holds
\* no well-formed number
MeanOverEligible(vs, mean, scale) ==
    LET eligible == {i \in 1..Len(vs) : HasField(vs[i])}
        count    == Cardinality(eligible)
        Add(acc, v) == IF HasField(v) THEN acc + v.n ELSE acc
        sum      == Reduce(Add, vs, 0)
        error    == mean * count - sum * scale
    IN  IF count = 0
        THEN mean = 0
        ELSE 2 * error <= count /\ -2 * error <= count

\* C8: each of the means of pkt_rate, byte_rate, avg_payload_size and
\* duration is the sum of the field over exactly the flows where it is a
\* well-formed number divided by the number of those flows (to the 3, for
\* avg_payload_size 2, decimals kept): an absent or non-numeric field adds
\* nothing to numerator or denominator, a present 0 is included, and the
\* mean is 0 when no flow is eligible.
C8_MeansOverEligibleFlows ==
    rendered =>
        /\ MeanOverEligible([i \in 1..Len(flows) |-> flows[i].pkt_rate],
                            report.avg_pkt_rate, 1000)
        /\ MeanOverEligible([i \in 1..Len(flows) |-> flows[i].byte_rate],
                            report.avg_byte_rate, 1000)
        /\ MeanOverEligible([i \in 1..Len(flows) |-> flows[i].avg_payload_size],
                            report.avg_payload, 100)
        /\ MeanOverEligible([i \in 1..Len(flows) |-> flows[i].duration],
                            report.avg_duration, 1000)

\* pkt_rate absent, 0 and 1 in one list: mean 0.5 over two flows; byte_rate
\* a string in every flow: mean 0
C8_Witness ==
    /\ rendered
    /\ Len(flows) = 3
    /\ {flows[i].pkt_rate : i \in 1..3} = {Undef, Num(0), Num(1)}
    /\ \A i \in 1..3 : flows[i].byte_rate = NaS
    /\ report.avg_pkt_rate = 500
    /\ report.avg_payload = 50
    /\ report.avg_byte_rate = 0

\* C9: anomaly_ratio (in hundredths) is exactly 0 when total_flows is 0, and
\* otherwise total_anomalies / total_flows * 100 to the nearest hundredth,
\* total_anomalies being the number of flows whose is_anomaly is true; it
\* lies between 0 and 100.
C9_AnomalyRatio ==
    rendered =>
        LET total     == Len(flows)
            anomalies == Cardinality({i \in 1..total : flows[i].is_anomaly = Bool(TRUE)})
            error     == report.anomalyRatio * total - anomalies * 100 * 100
        IN  /\ report.totalFlows = total
            /\ report.totalAnomalies = anomalies
            /\ total = 0 => report.anomalyRatio = 0
            /\ total > 0 => (2 * error <= total /\ -2 * error <= total)
            /\ report.anomalyRatio >= 0
            /\ report.anomalyRatio <= 100 * 100

\* one anomaly, one normal flow and one flow without the flag: 33.33
C9_Witness ==
    /\ rendered
    /\ Len(flows) = 3
    /\ {flows[i].is_anomaly : i \in 1..3} = {Undef, Bool(TRUE), Bool(FALSE)}
    /\ report.anomalyRatio = 3333

\* a metric of a model, an absent one taken as 0
MetricOrZero(v) == IF HasField(v) THEN v.n ELSE 0

\* the largest inference time of the map, floored at the epsilon 0.000001
LargestTimeFloored ==
    LET times == {MetricOrZero(modelEvals[m].inference_time_sec) : m \in DOMAIN modelEvals}
    IN  CHOOSE x \in times \cup {Epsilon} : \A y \in times \cup {Epsilon} : y <= x

\* 100 * (0.30*accuracy + 0.25*precision + 0.25*stability) of model m
WeightedMetrics(m) ==
    30 * MetricOrZero(modelEvals[m].pseudo_accuracy_pct)
    + 25 * MetricOrZero(modelEvals[m].pseudo_precision_pct)
    + 25 * MetricOrZero(modelEvals[m].stability_pct)

\* the map of the example: m1 takes 1 s, m2 takes 2 s, both 90 / 80 / 70
ExampleEvals ==
    << [pseudo_accuracy_pct |-> Num(90), pseudo_precision_pct |-> Num(80),
        stability_pct |-> Num(70), inference_time_sec |-> Num(Second)],
       [pseudo_accuracy_pct |-> Num(90), pseudo_precision_pct |-> Num(80),
        stability_pct |-> Num(70), inference_time_sec |-> Num(2 * Second)] >>

SameMetrics(m, k) ==
    /\ modelEvals[m].pseudo_accuracy_pct = modelEvals[k].pseudo_accuracy_pct
    /\ modelEvals[m].pseudo_precision_pct = modelEvals[k].pseudo_precision_pct
    /\ modelEvals[m].stability_pct = modelEvals[k].stability_pct

\* C13: of two models of the same map with identical accuracy, precision and
\* stability, the one whose inference time (absent as 0) is smaller or equal
\* has a strength greater than or equal to the other's, and the strengths
\* are equal when the times are equal.
C13_FasterIsNotWeaker ==
    rendered =>
        \A m, k \in DOMAIN modelEvals :
            SameMetrics(m, k) =>
               LET tm == MetricOrZero(modelEvals[m].inference_time_sec)
                   tk == MetricOrZero(modelEvals[k].inference_time_sec)
               IN  /\ tm <= tk => report.strength[m] >= report.strength[k]
                   /\ tm = tk => report.strength[m] = report.strength[k]

\* two models with the same metrics, the first one strictly faster and
\* strictly stronger, neither time a multiple of the other
C13_Witness ==
    /\ rendered
    /\ DOMAIN modelEvals = {1, 2}
    /\ SameMetrics(1, 2)
    /\ modelEvals[1].pseudo_accuracy_pct = Num(90)
    /\ modelEvals[1].inference_time_sec = Num(2)
    /\ modelEvals[2].inference_time_sec = Num(3)
    /\ report.strength[1] > report.strength[2]

\* H = log2(T) - (sum of c * log2(c)) / T over the positive counts c of cs,
\* T their sum, to the nearest 10^-4; 0 when cs has no positive count
EntropyOfPositive(cs) ==
    LET positive == SelectSeq(cs, LAMBDA c : c > 0)
        T        == SumCounts(positive)
        Weigh(acc, c) == acc + c * Log2(c)
    IN  IF T = 0 THEN 0
        ELSE RoundDiv(T * Log2(T) - Reduce(Weigh, positive, 0), T * 1000)

\* C11: the entropy of an empty frequency list is 0, the entropy of a list
\* with a single category is 0 whatever its count, and categories with a
\* count of 0 are skipped: the result is that of the positive counts alone.
C11_EntropyEdgeCases ==
    entropy.called =>
        /\ Len(counts) = 0 => entropy.value = 0
        /\ Len(counts) = 1 => entropy.value = 0
        /\ Cardinality({i \in 1..Len(counts) : counts[i] > 0}) = 1 => entropy.value = 0
        /\ entropy.value = EntropyOfPositive(counts)

\* counts 2, 0, 1: the zero in the middle is skipped, H(2/3, 1/3) = 0.9183
C11_Witness ==
    /\ entropy.called
    /\ counts = <<2, 0, 1>>
    /\ entropy.value = 9183

\* n is 2^k
IsPowerOfTwo(n, k) == n = 2^k

\* C12: for every N >= 1 the entropy of N categories of count 1 each is
\* log2(N) to 4 decimals, and exactly k when N = 2^k.
C12_UniformEntropy ==
    (entropy.called /\ Len(counts) >= 1 /\ \A i \in 1..Len(counts) : counts[i] = 1) =>
        /\ entropy.value = RoundDiv(Log2(Len(counts)), 1000)
        /\ \A k \in 0..4 : IsPowerOfTwo(Len(counts), k) => entropy.value = k * 10000

\* six categories of count 1: log2(6) = 2.5850
C12_Witness ==
    /\ entropy.called
    /\ counts = <<1, 1, 1, 1, 1, 1>>
    /\ entropy.value = 25850

\* an address value that is absent or empty
NoAddress(a) == a = UndefStr \/ a = ""

\* freq (the frequency object fed to an entropy) has one category per
\* distinct non-empty address of as, counting the flows of that address;
\* unique is their number, ent their entropy, and ranking files the flows
\* without address under "unknown"
FrequenciesOfNonEmpty(freq, as, unique, ent, ranking) ==
    LET named == {i \in 1..Len(as) : ~NoAddress(as[i])}
    IN  /\ Len(freq) = unique
        /\ {freq[c][1] : c \in 1..Len(freq)} = {as[i] : i \in named}
        /\ Cardinality({freq[c][1] : c \in 1..Len(freq)}) = Len(freq)
        /\ \A c \in 1..Len(freq) :
              freq[c][2] = Cardinality({i \in named : as[i] = freq[c][1]})
        /\ SumCounts([c \in 1..Len(freq) |-> freq[c][2]]) = Cardinality(named)
        /\ ent = EntropyOfPositive([c \in 1..Len(freq) |-> freq[c][2]])
        /\ named # 1..Len(as) => \E r \in 1..Len(ranking) : ranking[r].ip = "unknown"

\* C17: the frequency list fed to the source (resp. destination) entropy
\* has exactly unique_src_ips (resp. unique_dst_ips) categories, one per
\* distinct non-empty address, and its counts sum to the number of flows
\* with a non-empty address: flows with an absent or empty address are left
\* out of the unique count and of the entropy, while the ranking counts them
\* under "unknown".
C17_EntropyOverNonEmptyAddresses ==
    rendered =>
        /\ FrequenciesOfNonEmpty(SrcFrequencies(flows),
                                 [i \in 1..Len(flows) |-> flows[i].src],
                                 report.unique_src_ips, report.srcEntropy,
                                 report.topSources)
        /\ FrequenciesOfNonEmpty(DstFrequencies(flows),
                                 [i \in 1..Len(flows) |-> flows[i].dst],
                                 report.unique_dst_ips, report.dstEntropy,
                                 report.topDestinations)

\* one flow without src, one with an empty src, one with an address: a
\* single category for the entropy, two entries in the ranking
C17_Witness ==
    /\ rendered
    /\ Len(flows) = 3
    /\ {flows[i].src : i \in 1..3} = {UndefStr, "", "10.0.0.1"}
    /\ report.unique_src_ips = 1
    /\ report.srcEntropy = 0
    /\ Len(report.topSources) = 2
    /\ \E r \in 1..2 : report.topSources[r].ip = "unknown"

\* a histogram: named buckets with positive counts
IsHistogram(h) == \A b \in 1..Len(h) : h[b].name # TypeError /\ h[b].value \in Nat \ {0}

\* a ranking: at most TopN entries with a positive weight
IsRanking(r) == Len(r) <= TopN /\ \A e \in 1..Len(r) : r[e].packets \in Nat \ {0}

\* every field of the report rp of the flows fl and the models evals holds
\* a value of its kind
EveryFieldProduced(rp, fl, evals) ==
    /\ IsHistogram(rp.severityData) /\ IsHistogram(rp.protocolData)
    /\ IsRanking(rp.topSources) /\ IsRanking(rp.topDestinations)
    /\ rp.totalFlows \in Nat /\ rp.totalAnomalies \in 0..rp.totalFlows
    /\ rp.anomalyRatio \in 0..(100 * Scale2)
    /\ \A v \in {rp.avg_pkt_rate, rp.avg_byte_rate, rp.avg_payload, rp.avg_duration,
                 rp.total_bytes, rp.unique_src_ips, rp.unique_dst_ips,
                 rp.srcEntropy, rp.dstEntropy} : v \in Nat
    /\ \A x \in {rp.max_pkt_flow, rp.min_pkt_flow, rp.max_byte_flow, rp.min_byte_flow} :
          x \in 0..Len(fl) /\ (x = 0 <=> fl = <<>>)
    /\ DOMAIN rp.strength = DOMAIN evals
    /\ \A m \in DOMAIN evals : rp.strength[m] \in Int

\* the report of zero flows
IsZeroReport(rp) ==
    /\ rp.totalFlows = 0 /\ rp.totalAnomalies = 0 /\ rp.anomalyRatio = 0
    /\ rp.total_bytes = 0
    /\ rp.avg_pkt_rate = 0 /\ rp.avg_byte_rate = 0
    /\ rp.avg_payload = 0 /\ rp.avg_duration = 0
    /\ rp.unique_src_ips = 0 /\ rp.unique_dst_ips = 0
    /\ rp.srcEntropy = 0 /\ rp.dstEntropy = 0
    /\ rp.severityData = <<>> /\ rp.protocolData = <<>>
    /\ rp.topSources = <<>> /\ rp.topDestinations = <<>>
    /\ rp.max_pkt_flow = 0 /\ rp.min_pkt_flow = 0
    /\ rp.max_byte_flow = 0 /\ rp.min_byte_flow = 0

\* C14: the render has no error outcome: for every flow list (the empty one
\* and flows with any subset of fields absent) and every model map (the
\* empty one and models with any metric absent) no callback throws and
\* every field of the report is produced; with zero flows the report is all
\* zeros, empty histograms, empty rankings and no extremal flow.
C14_NoErrorOutcome ==
    rendered =>
        /\ ~report.threw
        /\ EveryFieldProduced(report, flows, modelEvals)
        /\ flows = <<>> => IsZeroReport(report)

\* a flow with every field absent followed by a complete one, and a model
\* with every metric absent followed by a complete one
C14_Witness ==
    /\ rendered
    /\ flows = <<BlankFlow, FullFlow>>
    /\ modelEvals = <<BlankStats, FullStats>>
    /\ ~report.threw
    /\ report.severityData = <<[name |-> "LOW", value |-> 1], [name |-> "HIGH", value |-> 1]>>
    /\ report.total_bytes = 200
    /\ report.strength[1] = 0

\* the response data holds is one the server sent, as it was sent
AsSent(d) ==
    \/ d.null
    \/ \E o \in ResponseObjects :
          d.flows = o.flows /\ d.model_evaluations = o.model_evaluations

\* the inputs and the report of the last render
ReportOfInputs ==
    rendered =>
        /\ AsSent(data)
        /\ flows = FlowsOf(data)
        /\ modelEvals = EvalsOf(data)
        /\ report = ComputeReport(FlowsOf(data), EvalsOf(data))

\* a step that keeps data renders the same inputs and the same report
SameInputsSameReport ==
    (rendered /\ data' = data) =>
        (flows' = flows /\ modelEvals' = modelEvals /\ report' = report)

\* C15: computing the report leaves the flow list and the model map as the
\* response carried them, and the report of a render is the report of its
\* inputs, whatever was uploaded and rendered before: a second render of the
\* same inputs yields the same report in every field.
C15_PureReport == []ReportOfInputs /\ [][SameInputsSameReport]_vars

\* the third response rendered, after two other uploads
C15_Witness ==
    /\ rendered
    /\ upload = Idle(3)
    /\ data.id = 3
    /\ flows = <<FullFlow>>
    /\ memo.deps = 3
    /\ report.totalFlows = 1
    /\ report.severityData = <<[name |-> "HIGH", value |-> 1]>>

\* handleUpload is called in this step
Attempted == upload'.calls = upload.calls + 1

\* the call of handleUpload in flight ends in this step
Ended == upload.pc # "idle" /\ upload'.pc = "idle"

\* the try block throws: fetch rejects, res.json() rejects, or the error
\* branch reads a property of a JSON null
Thrown ==
    \/ upload.pc = "fetch"
    \/ upload.pc = "json" /\ upload.body.kind = "text"
    \/ upload.pc = "json" /\ upload.body.kind = "null" /\ upload.status # 200

UploadEffects ==
    /\ (Attempted /\ ~file) => UNCHANGED <<data, loading, activeTab>>
    /\ (Attempted /\ file) => loading' = TRUE
    /\ Ended => loading' = FALSE
    /\ (Ended /\ ~Thrown /\ upload.status = 200) =>
          /\ data' = Json(upload.body, upload.calls)
          /\ activeTab' = "overview"
    /\ (Ended /\ ~Thrown /\ upload.status # 200) => data' = Null
    /\ (Ended /\ Thrown) => data' = data

=============================================================================
